---- MODULE Spec2Model ----
(***************************************************************************)
(* The log scanning and aggregation engine of logs_categorizer.py:        *)
(* iter_input_files, analyze_files (with extract_timestamp), the report   *)
(* writers and main.                                                       *)
(*                                                                         *)
(* Text is modelled by its structure.  A path string is the sequence of   *)
(* its "/"-separated components.  A log line is a record: the set of      *)
(* error phrases it contains, an optional "[dd/mm/2025 ... |" prefix and  *)
(* an optional "2025-mm-dd hh:00:00" stamp.  A timestamp string is a      *)
(* record naming its layout and its numeric fields.                       *)
(***************************************************************************)
EXTENDS Integers, Sequences, FiniteSets, TLC

\* ------------------------------------------------------------------ bounds
MaxLines == 3
MaxInputs == 2

\* ------------------------------------------------------- sequence helpers
Range(s) == {s[k] : k \in DOMAIN s}

Perms(S) == {q \in [1..Cardinality(S) -> S] : \A a, b \in DOMAIN q : a # b => q[a] # q[b]}

SeqPerms(s) == {[k \in DOMAIN s |-> s[b[k]]] : b \in Perms(DOMAIN s)}

SeqsUpTo(S, n) == UNION {[1..k -> S] : k \in 0..n}

\* ---------------------------------------------------------- ERROR_PATTERNS
\* A regex is modelled by the set of phrases of the line alphabet it matches.
ERROR_PATTERNS ==
  << [name |-> "NetworkError",         regex |-> {"nsUtils err: 5", "network list err: 5"}],
     [name |-> "TunnelError",          regex |-> {"CTunnelMgr No tunnel found", "tunnel not found"}],
     [name |-> "Proxy403",             regex |-> {"HTTP response code: 403", "forbidden"}],
     [name |-> "RecordingCorrupted",   regex |-> {"corrupted recording"}],
     [name |-> "PSM_DuplicateSession", regex |-> {"Duplicated session was created"}],
     [name |-> "PSM_VaultIssues",      regex |-> {"Open vault file operation fail"}],
     [name |-> "PSM_ListenerLogoff",   regex |-> {"TSSession logoff event"}],
     [name |-> "PSM_InternalConn",     regex |-> {"InternalConnectionClient has stopped"}],
     [name |-> "Auth_TicketMissing",   regex |-> {"Ticket ID was not found"}] >>

Names == {ERROR_PATTERNS[k].name : k \in DOMAIN ERROR_PATTERNS}

\* cregex.search(line)
search(regex, line) == regex \cap line.tokens # {}

\* Position of a Python str among the error names under str ordering
\* (the tie-break key kv[0] of the report sort).
NameRank ==
  [n \in Names |->
     CASE n = "Auth_TicketMissing"   -> 1
       [] n = "NetworkError"         -> 2
       [] n = "PSM_DuplicateSession" -> 3
       [] n = "PSM_InternalConn"     -> 4
       [] n = "PSM_ListenerLogoff"   -> 5
       [] n = "PSM_VaultIssues"      -> 6
       [] n = "Proxy403"             -> 7
       [] n = "RecordingCorrupted"   -> 8
       [] n = "TunnelError"          -> 9]

\* The loop "for name, cregex in compiled: if cregex.search(line): ... break":
\* 0 when no signature matches, else the index of the first one that does.
FirstMatchLast(line) ==
  LET hits == {k \in DOMAIN ERROR_PATTERNS : search(ERROR_PATTERNS[k].regex, line)}
  IN IF hits = {} THEN 0 ELSE CHOOSE k \in hits : \A j \in hits : j <= k

FirstMatch(line) ==
  LET hits == {k \in DOMAIN ERROR_PATTERNS : search(ERROR_PATTERNS[k].regex, line)}
  IN IF hits = {} THEN 0 ELSE CHOOSE k \in hits : \A j \in hits : k <= j

\* ------------------------------------------------------------- timestamps
\* Timestamp strings.  layout "iso" is "2025-mm-ddThh:00:00", layout "dmy" is
\* the raw "dd/mm/2025", layout "" is the empty string, layout "None" is None.
TsStr(layout, d, m, h) == [layout |-> layout, d |-> d, m |-> m, h |-> h]
NoneTs == TsStr("None", 0, 0, 0)
EmptyStr == TsStr("", 0, 0, 0)

DaysIn ==
  [m \in 1..12 |-> IF m = 2 THEN 28 ELSE IF m \in {4, 6, 9, 11} THEN 30 ELSE 31]

\* datetime.strptime(val, "%d/%m/%Y") succeeds
ValidDate(d, m) == m \in 1..12 /\ d \in 1..DaysIn[m]

\* datetime.fromisoformat(s.replace(" ", "T")) succeeds
Parses(s) == s.layout = "iso" /\ ValidDate(s.d, s.m) /\ s.h \in 0..23

\* the instant of a parsed timestamp, in hours since 2025-01-00
Instant(s) == (s.m * 31 + s.d) * 24 + s.h

\* "ts or ''"
OrEmpty(ts) == IF ts = NoneTs THEN EmptyStr ELSE ts

extract_timestamp(line) ==
  IF line.bracket # <<>>
  THEN LET d == line.bracket[1]
           m == line.bracket[2]
       IN IF ValidDate(d, m) THEN TsStr("iso", d, m, 0) ELSE TsStr("dmy", d, m, 0)
  ELSE IF line.iso # <<>>
       THEN TsStr("iso", line.iso[2], line.iso[1], line.iso[3])
       ELSE NoneTs

\* ------------------------------------------------------------------ paths
Dir == <<"logs">>
FileA == <<"logs", "a.txt">>
FileB == <<"logs", "b.txt">>
FileN == <<"logs", "notes.log">>
TxtFiles == {FileA, FileB}
AllFiles == {FileA, FileB, FileN}

\* Position of a path component under Python str ordering.
CompRank(c) ==
  CASE c = "."         -> 0
    [] c = ".."        -> 1
    [] c = "a.txt"     -> 2
    [] c = "b.txt"     -> 3
    [] c = "logs"      -> 4
    [] c = "nope"      -> 5
    [] c = "notes.log" -> 6

\* Path(inp): pathlib drops "." components, keeps ".."
RECURSIVE Path(_)
Path(inp) ==
  IF inp = <<>> THEN <<>>
  ELSE IF Head(inp) = "." THEN Path(Tail(inp))
       ELSE <<Head(inp)>> \o Path(Tail(inp))

\* The file system's resolution of a path: ".." steps back to the parent.
RECURSIVE Walk(_, _)
Walk(done, rest) ==
  IF rest = <<>> THEN done
  ELSE IF Head(rest) = ".."
       THEN Walk(IF done = <<>> THEN <<>> ELSE SubSeq(done, 1, Len(done) - 1), Tail(rest))
       ELSE IF Head(rest) = "." THEN Walk(done, Tail(rest))
            ELSE Walk(Append(done, Head(rest)), Tail(rest))

Resolve(p) == Walk(<<>>, p)

is_dir(p) == Resolve(p) = Dir
is_file(p) == Resolve(p) \in AllFiles

\* PurePath.__lt__: component-wise comparison of the parts
RECURSIVE PathLess(_, _)
PathLess(p, q) ==
  IF q = <<>> THEN FALSE
  ELSE IF p = <<>> THEN TRUE
       ELSE IF Head(p) = Head(q) THEN PathLess(Tail(p), Tail(q))
            ELSE CompRank(Head(p)) < CompRank(Head(q))

RECURSIVE SortPaths(_)
SortPaths(S) ==
  IF S = {} THEN <<>>
  ELSE LET m == CHOOSE x \in S : \A y \in S : x = y \/ PathLess(x, y)
       IN <<m>> \o SortPaths(S \ {m})

\* sorted(list(v["files"])): the files of an entry are str(fpath), compared as
\* strings.  No component of the path alphabet is a prefix of another, so the
\* order of the joined strings is the component-wise order.
sorted_list(S) == SortPaths(S)

\* list of the distinct elements in order of first appearance
RECURSIVE Dedup(_)
Dedup(s) ==
  IF s = <<>> THEN <<>>
  ELSE LET r == Dedup(SubSeq(s, 1, Len(s) - 1))
       IN IF s[Len(s)] \in Range(r) THEN r ELSE Append(r, s[Len(s)])

\* "return sorted(set(files))"
sorted_setUnsorted(acc) == Dedup(acc)

sorted_set(acc) == SortPaths(Range(acc))

\* "if not files:" of main
no_filesNever(fl) == FALSE

no_files(fl) == fl = <<>>

\* ------------------------------------------------------------ aggregation
NewEntry(name, ts, msg) ==
  [error_name |-> name, count |-> 0, first_seen |-> OrEmpty(ts),
   last_seen |-> OrEmpty(ts), files |-> {}, sample_message |-> msg]

\* The "if ts:" block of analyze_files applied to one entry.
BoundsSwapped(e, ts) ==
  IF ts = NoneTs THEN e
  ELSE LET f0 == IF e.first_seen = EmptyStr THEN ts ELSE e.first_seen
           l0 == IF e.last_seen = EmptyStr THEN ts ELSE e.last_seen
           ok == Parses(f0) /\ Parses(l0) /\ Parses(ts)
       IN [e EXCEPT !.first_seen = IF ok /\ Instant(ts) > Instant(l0) THEN ts ELSE f0,
                    !.last_seen = IF ok /\ Instant(ts) < Instant(f0) THEN ts ELSE l0]

BoundsOverwrite(e, ts) ==
  IF ts = NoneTs THEN e
  ELSE LET f0 == IF e.first_seen = EmptyStr THEN ts ELSE e.first_seen
           l0 == IF e.last_seen = EmptyStr THEN ts ELSE e.last_seen
           ok == Parses(f0) /\ Parses(l0) /\ Parses(ts)
       IN [e EXCEPT !.first_seen = IF ok /\ Instant(ts) < Instant(f0) THEN ts ELSE f0,
                    !.last_seen = IF ~ok \/ Instant(ts) > Instant(l0) THEN ts ELSE l0]

BoundsFirstOnly(e, ts) ==
  IF ts = NoneTs THEN e
  ELSE LET f0 == IF e.first_seen = EmptyStr THEN ts ELSE e.first_seen
           l0 == IF e.last_seen = EmptyStr THEN ts ELSE e.last_seen
           ok == Parses(f0) /\ Parses(l0) /\ Parses(ts)
       IN [e EXCEPT !.first_seen = IF ok /\ Instant(ts) < Instant(f0) THEN ts ELSE f0,
                    !.last_seen = l0]

Bounds(e, ts) ==
  IF ts = NoneTs THEN e
  ELSE LET f0 == IF e.first_seen = EmptyStr THEN ts ELSE e.first_seen
           l0 == IF e.last_seen = EmptyStr THEN ts ELSE e.last_seen
           ok == Parses(f0) /\ Parses(l0) /\ Parses(ts)
       IN [e EXCEPT !.first_seen = IF ok /\ Instant(ts) < Instant(f0) THEN ts ELSE f0,
                    !.last_seen = IF ok /\ Instant(ts) > Instant(l0) THEN ts ELSE l0]

\* Lines 118-144: the update of summary for one occurrence.
IngestCountFiles(sm, name, fpath, ts, msg) ==
  LET e0 == IF name \in DOMAIN sm THEN sm[name] ELSE NewEntry(name, ts, msg)
      e1 == [e0 EXCEPT !.count = IF fpath \in e0.files THEN e0.count ELSE e0.count + 1,
                       !.files = e0.files \cup {fpath}]
      e2 == Bounds(e1, ts)
  IN [n \in DOMAIN sm \cup {name} |-> IF n = name THEN e2 ELSE sm[n]]

IngestLastFile(sm, name, fpath, ts, msg) ==
  LET e0 == IF name \in DOMAIN sm THEN sm[name] ELSE NewEntry(name, ts, msg)
      e1 == [e0 EXCEPT !.count = e0.count + 1, !.files = {fpath}]
      e2 == Bounds(e1, ts)
  IN [n \in DOMAIN sm \cup {name} |-> IF n = name THEN e2 ELSE sm[n]]

Ingest(sm, name, fpath, ts, msg) ==
  LET e0 == IF name \in DOMAIN sm THEN sm[name] ELSE NewEntry(name, ts, msg)
      e1 == [e0 EXCEPT !.count = e0.count + 1, !.files = e0.files \cup {fpath}]
      e2 == Bounds(e1, ts)
  IN [n \in DOMAIN sm \cup {name} |-> IF n = name THEN e2 ELSE sm[n]]

\* The position of the for loop over files after the except clause.
AfterExcept(k, n) == k + 1

\* sorted(summary.items(), key=lambda kv: (-kv[1]["count"], kv[0]))
RowBeforeByName(sm, a, b) == NameRank[a] < NameRank[b]

RowBefore(sm, a, b) ==
  \/ sm[a].count > sm[b].count
  \/ sm[a].count = sm[b].count /\ NameRank[a] < NameRank[b]

RECURSIVE SortNames(_, _)
SortNames(sm, S) ==
  IF S = {} THEN <<>>
  ELSE LET m == CHOOSE x \in S : \A y \in S : x = y \/ RowBefore(sm, x, y)
       IN <<m>> \o SortNames(sm, S \ {m})

sorted_items(sm) == SortNames(sm, DOMAIN sm)

\* Path(f).name
BaseName(p) == p[Len(p)]

\* row = data.copy(); row["files"] = ";".join(row["files"])
CsvRow(e) == [e EXCEPT !.files = [joined |-> e.files]]

MdRow(e) ==
  [error_name |-> e.error_name, count |-> e.count,
   first_seen |-> IF e.first_seen = EmptyStr THEN "-" ELSE e.first_seen,
   last_seen |-> IF e.last_seen = EmptyStr THEN "-" ELSE e.last_seen,
   files |-> IF e.files = <<>> THEN "-" ELSE [k \in DOMAIN e.files |-> BaseName(e.files[k])]]

\* ------------------------------------------------------------- line texts
Line(tokens, bracket, iso) == [tokens |-> tokens, bracket |-> bracket, iso |-> iso]

\* Lines that differ in the signatures they match.
MatchLines ==
  { Line({}, <<>>, <<>>),
    Line({"nsUtils err: 5"}, <<>>, <<>>),
    Line({"forbidden"}, <<>>, <<>>),
    Line({"tunnel not found", "forbidden"}, <<>>, <<>>),
    Line({"nsUtils err: 5", "tunnel not found"}, <<>>, <<5, 10, 12, " ">>) }

\* Lines that differ in the timestamp they carry:
\* iso is <<month, day, hour, separator>>, bracket is <<day, month>>.
TsLines ==
  { Line({"forbidden"}, <<>>, <<>>),
    Line({"forbidden"}, <<10, 5>>, <<>>),
    Line({"forbidden"}, <<31, 4>>, <<>>),
    Line({"forbidden"}, <<>>, <<4, 10, 8, " ">>),
    Line({"forbidden"}, <<>>, <<5, 10, 12, "T">>),
    Line({"forbidden"}, <<>>, <<13, 10, 12, " ">>),
    Line({"forbidden"}, <<10, 6>>, <<4, 10, 8, " ">>),
    Line({"nsUtils err: 5"}, <<>>, <<6, 1, 0, " ">>) }

TwoLines ==
  { Line({"forbidden"}, <<>>, <<5, 10, 12, " ">>),
    Line({"nsUtils err: 5"}, <<>>, <<4, 10, 8, " ">>) }

OneLine == { Line({"forbidden"}, <<>>, <<5, 10, 12, " ">>) }

\* logs/notes.log is never changed: one line, not a *.txt file
NotesContent == << Line({"forbidden"}, <<>>, <<>>) >>

\* ------------------------------------------------------------ input paths
Missing == <<"nope">>
DotDir == <<".", "logs">>
DotFileA == <<".", "logs", "a.txt">>
AliasA == <<"logs", "..", "logs", "a.txt">>

BasicInputs == { <<Dir>>, <<FileA, Missing>>, <<Missing>> }

\* nargs="+": at least one path
PathInputs == SeqsUpTo({Dir, DotDir, FileA, DotFileA, AliasA, FileN, Missing}, MaxInputs) \ {<<>>}

TwiceInputs == (SeqsUpTo({Dir, FileB}, MaxInputs) \ {<<>>}) \cup {<<Missing>>, <<FileB, Missing>>}

\* ------------------------------------------------------------------ state
VARIABLES
  argv_input,    \* args.input: the path strings given on the command line
  export_json,   \* args.export_json
  content,       \* file system: the lines of each file
  failAt,        \* file system: NoFail, 0 (open raises) or k (reading line k raises)
  pc,            \* position of main
  inp_i,         \* iter_input_files: index of the next input
  acc,           \* iter_input_files: the list "files" before sorted(set(..))
  files,         \* main: the list returned by iter_input_files
  fidx,          \* analyze_files: index of the file being scanned
  lineno,        \* analyze_files: lines of the open file already delivered
  scanned,       \* the (file, line number, text) delivered to the matching loop
  occurrences,   \* analyze_files: occurrences
  summary,       \* analyze_files: summary
  stderr,        \* the [WARN]/[ERRO] messages printed
  outdir,        \* TRUE once the output directory exists
  written,       \* the report files written: name -> rows
  status,        \* exit status of the process, -1 while running
  prev           \* result of the previous run of main on the same input

vars == << argv_input, export_json, content, failAt, pc, inp_i, acc, files, fidx,
           lineno, scanned, occurrences, summary, stderr, outdir, written, status, prev >>

fsvars == << content, failAt >>
argvars == << argv_input, export_json >>

NoFail == -1
NoSummary == [n \in {} |-> 0]
NoPrev == [set |-> FALSE, occurrences |-> <<>>, csv_summary |-> <<>>, status |-> -1,
           argv |-> <<>>, acc |-> <<>>]

FileSys(Lines, maxBad) ==
  \E a \in SeqsUpTo(Lines, MaxLines) :
  \E b \in SeqsUpTo(Lines, MaxLines - Len(a)) :
    /\ content = [f \in AllFiles |-> IF f = FileA THEN a ELSE IF f = FileB THEN b ELSE NotesContent]
    /\ \E fa \in {NoFail} \cup (0..Len(a)) :
       \E fb \in {NoFail} \cup (0..Len(b)) :
         /\ Cardinality({x \in {1, 2} : (IF x = 1 THEN fa ELSE fb) # NoFail}) <= maxBad
         /\ failAt = [f \in AllFiles |-> IF f = FileA THEN fa ELSE IF f = FileB THEN fb ELSE NoFail]

Start ==
  /\ pc = "main"
  /\ inp_i = 1
  /\ acc = <<>>
  /\ files = <<>>
  /\ fidx = 1
  /\ lineno = 0
  /\ scanned = <<>>
  /\ occurrences = <<>>
  /\ summary = NoSummary
  /\ stderr = <<>>
  /\ outdir = FALSE
  /\ written = [n \in {} |-> <<>>]
  /\ status = -1
  /\ prev = NoPrev

\* any content, any read failure
Init ==
  /\ argv_input \in BasicInputs
  /\ export_json = FALSE
  /\ FileSys(MatchLines, 1)
  /\ Start

\* any mix of timestamps
InitTs ==
  /\ argv_input \in BasicInputs
  /\ export_json = FALSE
  /\ FileSys(TsLines, 0)
  /\ Start

\* any list of input paths
InitPaths ==
  /\ argv_input \in PathInputs
  /\ export_json \in BOOLEAN
  /\ FileSys(OneLine, 0)
  /\ Start

\* the input of a run that is repeated
InitTwice ==
  /\ argv_input \in TwiceInputs
  /\ export_json = FALSE
  /\ FileSys(TwoLines, 1)
  /\ Start

\* ---------------------------------------------------------------- actions
\* main, lines 219-222: create the output directory, call iter_input_files
MainStart ==
  /\ pc = "main"
  /\ outdir' = TRUE
  /\ pc' = "iter_inputs"
  /\ UNCHANGED << argvars, fsvars, inp_i, acc, files, fidx, lineno, scanned,
                  occurrences, summary, stderr, written, status, prev >>

\* iter_input_files, lines 75-82: one iteration of "for inp in inputs"
IterInput ==
  /\ pc = "iter_inputs"
  /\ inp_i <= Len(argv_input)
  /\ LET inp == argv_input[inp_i]
         p == Path(inp)
     IN IF is_dir(p)
        THEN \E order \in Perms(TxtFiles) :
               /\ acc' = acc \o [k \in DOMAIN order |-> Append(p, BaseName(order[k]))]
               /\ stderr' = stderr
        ELSE IF is_file(p)
             THEN acc' = Append(acc, p) /\ stderr' = stderr
             ELSE acc' = acc /\ stderr' = Append(stderr, [tag |-> "WARN", path |-> inp])
  /\ inp_i' = inp_i + 1
  /\ UNCHANGED << argvars, fsvars, pc, files, fidx, lineno, scanned,
                  occurrences, summary, outdir, written, status, prev >>

\* iter_input_files, line 83, and main, lines 222-228
IterReturn ==
  /\ pc = "iter_inputs"
  /\ inp_i > Len(argv_input)
  /\ files' = sorted_set(acc)
  /\ IF no_files(sorted_set(acc))
     THEN /\ stderr' = Append(stderr, [tag |-> "ERRO", path |-> <<>>])
          /\ status' = 2
          /\ pc' = "exit"
     ELSE /\ stderr' = stderr
          /\ status' = status
          /\ pc' = "for_file"
  /\ UNCHANGED << argvars, fsvars, inp_i, acc, fidx, lineno, scanned,
                  occurrences, summary, outdir, written, prev >>

\* analyze_files, lines 94-96 and 146-147: next file of the loop, open it
OpenFile ==
  /\ pc = "for_file"
  /\ fidx <= Len(files)
  /\ IF failAt[Resolve(files[fidx])] = 0
     THEN /\ stderr' = Append(stderr, [tag |-> "ERRO", path |-> files[fidx]])
          /\ fidx' = AfterExcept(fidx, Len(files))
          /\ pc' = "for_file"
     ELSE /\ stderr' = stderr
          /\ fidx' = fidx
          /\ pc' = "for_line"
  /\ lineno' = 0
  /\ UNCHANGED << argvars, fsvars, inp_i, acc, files, scanned,
                  occurrences, summary, outdir, written, status, prev >>

\* analyze_files, lines 97-147: one iteration of "for lineno, line in enumerate(fh)"
NextLine ==
  /\ pc = "for_line"
  /\ LET fpath == files[fidx]
         f == Resolve(fpath)
         k == lineno + 1
     IN IF k > Len(content[f])
        THEN \* end of file
             /\ fidx' = fidx + 1
             /\ pc' = "for_file"
             /\ UNCHANGED << lineno, scanned, occurrences, summary, stderr >>
        ELSE IF failAt[f] = k
        THEN \* the read raises
             /\ stderr' = Append(stderr, [tag |-> "ERRO", path |-> fpath])
             /\ fidx' = AfterExcept(fidx, Len(files))
             /\ pc' = "for_file"
             /\ UNCHANGED << lineno, scanned, occurrences, summary >>
        ELSE LET line == content[f][k]
                 hit == FirstMatch(line)
                 name == ERROR_PATTERNS[hit].name
                 ts == extract_timestamp(line)
             IN /\ lineno' = k
                /\ scanned' = Append(scanned, [file |-> fpath, line |-> k, text |-> line])
                /\ IF hit = 0
                   THEN UNCHANGED << occurrences, summary >>
                   ELSE /\ occurrences' = Append(occurrences,
                              [error_name |-> name, file |-> fpath, line |-> k,
                               timestamp |-> OrEmpty(ts), message |-> line])
                        /\ summary' = Ingest(summary, name, fpath, ts, line)
                /\ UNCHANGED << fidx, pc, stderr >>
  /\ UNCHANGED << argvars, fsvars, inp_i, acc, files, outdir, written, status, prev >>

\* analyze_files, lines 149-152: sort the file sets and return
AnalyzeReturn ==
  /\ pc = "for_file"
  /\ fidx > Len(files)
  /\ summary' = [n \in DOMAIN summary |-> [summary[n] EXCEPT !.files = sorted_list(summary[n].files)]]
  /\ pc' = "write_csv_occurrences"
  /\ UNCHANGED << argvars, fsvars, inp_i, acc, files, fidx, lineno, scanned,
                  occurrences, stderr, outdir, written, status, prev >>

Put(w, name, rows) == [n \in DOMAIN w \cup {name} |-> IF n = name THEN rows ELSE w[n]]

\* write_csv_occurrences, lines 157-171
WriteCsvOccurrences ==
  /\ pc = "write_csv_occurrences"
  /\ written' = Put(written, "erros_detalhados.csv",
        [k \in DOMAIN occurrences |->
           [error_name |-> occurrences[k].error_name, file |-> occurrences[k].file,
            line |-> occurrences[k].line, message |-> occurrences[k].message]])
  /\ pc' = "write_csv_summary"
  /\ UNCHANGED << argvars, fsvars, inp_i, acc, files, fidx, lineno, scanned,
                  occurrences, summary, stderr, outdir, status, prev >>

\* write_csv_summary, lines 173-183
WriteCsvSummary ==
  /\ pc = "write_csv_summary"
  /\ LET order == sorted_items(summary)
     IN written' = Put(written, "erros_resumo.csv",
                       [k \in DOMAIN order |-> CsvRow(summary[order[k]])])
  /\ pc' = "write_markdown"
  /\ UNCHANGED << argvars, fsvars, inp_i, acc, files, fidx, lineno, scanned,
                  occurrences, summary, stderr, outdir, status, prev >>

\* write_markdown, lines 185-202
WriteMarkdown ==
  /\ pc = "write_markdown"
  /\ LET order == sorted_items(summary)
     IN written' = Put(written, "RELATORIO_SUMARIO.md",
                       [k \in DOMAIN order |-> MdRow(summary[order[k]])])
  /\ pc' = "export_json"
  /\ UNCHANGED << argvars, fsvars, inp_i, acc, files, fidx, lineno, scanned,
                  occurrences, summary, stderr, outdir, status, prev >>

\* main, lines 234-242: the optional JSON dump, then the process ends
MainFinish ==
  /\ pc = "export_json"
  /\ written' = IF export_json THEN Put(written, "resumo.json", <<summary>>) ELSE written
  /\ status' = 0
  /\ pc' = "done"
  /\ UNCHANGED << argvars, fsvars, inp_i, acc, files, fidx, lineno, scanned,
                  occurrences, summary, stderr, outdir, prev >>

\* lines 244-245: the program is run again on the unchanged file system, the
\* same paths given in any order
Rerun ==
  /\ pc \in {"done", "exit"}
  /\ ~prev.set
  /\ prev' = [set |-> TRUE, occurrences |-> occurrences, status |-> status,
              argv |-> argv_input, acc |-> acc,
              csv_summary |-> IF "erros_resumo.csv" \in DOMAIN written
                              THEN written["erros_resumo.csv"] ELSE <<>>]
  /\ argv_input' \in SeqPerms(argv_input)
  /\ pc' = "main"
  /\ inp_i' = 1
  /\ acc' = <<>>
  /\ files' = <<>>
  /\ fidx' = 1
  /\ lineno' = 0
  /\ scanned' = <<>>
  /\ occurrences' = <<>>
  /\ summary' = NoSummary
  /\ stderr' = <<>>
  /\ written' = [n \in {} |-> <<>>]
  /\ status' = -1
  /\ UNCHANGED << export_json, fsvars, outdir >>

Next ==
  \/ MainStart
  \/ IterInput
  \/ IterReturn
  \/ OpenFile
  \/ NextLine
  \/ AnalyzeReturn
  \/ WriteCsvOccurrences
  \/ WriteCsvSummary
  \/ WriteMarkdown
  \/ MainFinish

NextTwice == Next \/ Rerun

Spec == Init /\ [][Next]_vars
SpecTs == InitTs /\ [][Next]_vars
SpecPaths == InitPaths /\ [][Next]_vars
SpecTwice == InitTwice /\ [][NextTwice]_vars

TypeOK ==
  /\ pc \in {"main", "iter_inputs", "exit", "for_file", "for_line", "write_csv_occurrences",
             "write_csv_summary", "write_markdown", "export_json", "done"}
  /\ DOMAIN summary \subseteq Names
  /\ fidx \in 1..(Len(files) + 1)

\* ================================================================ claims
\* analyze_files has returned
Returned == pc \in {"write_csv_occurrences", "write_csv_summary", "write_markdown",
                    "export_json", "done"}

OccsOf(n) == {k \in DOMAIN occurrences : occurrences[k].error_name = n}

RECURSIVE SumCounts(_)
SumCounts(S) ==
  IF S = {} THEN 0
  ELSE LET n == CHOOSE x \in S : TRUE IN summary[n].count + SumCounts(S \ {n})

Failed == {stderr[k].path : k \in {j \in DOMAIN stderr : stderr[j].tag = "ERRO"}}

\* C1: when analyze_files returns, every summary count is the number of
\* occurrences with that error_name, so the counts sum to len(occurrences),
\* also when the open or the read of a file failed.
C1_CountsMatchOccurrences ==
  Returned =>
    /\ \A n \in Names :
         (IF n \in DOMAIN summary THEN summary[n].count ELSE 0) = Cardinality(OccsOf(n))
    /\ SumCounts(DOMAIN summary) = Len(occurrences)

C1_Witness ==
  /\ Returned
  /\ Failed # {}
  /\ Cardinality(DOMAIN summary) >= 2
  /\ \E n \in DOMAIN summary : summary[n].count >= 2

Hits(line) == {k \in DOMAIN ERROR_PATTERNS : search(ERROR_PATTERNS[k].regex, line)}

OccsAt(s) == {k \in DOMAIN occurrences :
                occurrences[k].file = s.file /\ occurrences[k].line = s.line}

\* C2: every scanned line has no occurrence when no signature matches it, and
\* otherwise exactly one, named after the earliest matching signature of
\* ERROR_PATTERNS.
C2_FirstSignatureOwnsLine ==
  \A i \in DOMAIN scanned :
    LET s == scanned[i]
    IN IF Hits(s.text) = {}
       THEN OccsAt(s) = {}
       ELSE /\ Cardinality(OccsAt(s)) = 1
            /\ \A k \in OccsAt(s) : \A h \in Hits(s.text) :
                 (\A j \in Hits(s.text) : h <= j)
                   => occurrences[k].error_name = ERROR_PATTERNS[h].name

C2_Witness ==
  /\ \E i \in DOMAIN scanned :
       Cardinality(Hits(scanned[i].text)) >= 2 /\ OccsAt(scanned[i]) # {}
  /\ \E i \in DOMAIN scanned : Hits(scanned[i].text) = {}
  /\ Len(occurrences) >= 2

\* C3: whenever first_seen and last_seen of an entry both parse, the instant
\* of first_seen is not after the instant of last_seen.
C3_FirstNotAfterLast ==
  \A n \in DOMAIN summary :
    (Parses(summary[n].first_seen) /\ Parses(summary[n].last_seen))
      => Instant(summary[n].first_seen) <= Instant(summary[n].last_seen)

C3_Witness ==
  \E n \in DOMAIN summary :
    /\ summary[n].count >= 3
    /\ Parses(summary[n].first_seen) /\ Parses(summary[n].last_seen)
    /\ Instant(summary[n].first_seen) < Instant(summary[n].last_seen)
    /\ \E k \in OccsOf(n) : k > 1 /\ occurrences[k].timestamp = summary[n].first_seen

\* the parsed timestamps among the occurrences of n
ParsedOf(n) == {occurrences[k].timestamp : k \in {j \in OccsOf(n) : Parses(occurrences[j].timestamp)}}

Earliest(P, t) == t \in P /\ \A u \in P : Instant(t) <= Instant(u)
Latest(P, t) == t \in P /\ \A u \in P : Instant(u) <= Instant(t)

\* the occurrences of n that carry a timestamp string
StampedOf(n) == {k \in OccsOf(n) : occurrences[k].timestamp # EmptyStr}

\* C4 (as claimed): when analyze_files returns, first_seen is the earliest and
\* last_seen the latest parsed timestamp among the occurrences of the name,
\* for any mix of parseable, unparseable and absent timestamps.
C4_Original ==
  Returned =>
    \A n \in DOMAIN summary :
      ParsedOf(n) # {} => /\ Earliest(ParsedOf(n), summary[n].first_seen)
                          /\ Latest(ParsedOf(n), summary[n].last_seen)

\* C4 (amended): when analyze_files returns, first_seen is the earliest and
\* last_seen the latest parsed timestamp among the occurrences of the name
\* provided the first occurrence of the name that carries a timestamp carries
\* a parseable one; when that one is unparseable both stay that string, and
\* when no occurrence carries a timestamp both are empty.
C4_EarliestLatestAfterParseableFirst ==
  Returned =>
    \A n \in DOMAIN summary :
      IF StampedOf(n) = {}
      THEN summary[n].first_seen = EmptyStr /\ summary[n].last_seen = EmptyStr
      ELSE LET k0 == CHOOSE k \in StampedOf(n) : \A j \in StampedOf(n) : k <= j
               t0 == occurrences[k0].timestamp
           IN IF Parses(t0)
              THEN /\ Earliest(ParsedOf(n), summary[n].first_seen)
                   /\ Latest(ParsedOf(n), summary[n].last_seen)
              ELSE summary[n].first_seen = t0 /\ summary[n].last_seen = t0

C4_Witness ==
  /\ Returned
  /\ \E n \in DOMAIN summary :
       /\ summary[n].first_seen # summary[n].last_seen
       /\ \E k \in StampedOf(n) : ~Parses(occurrences[k].timestamp)

\* the lines of the files scanned, by path
ScannedOf(fpath) == {i \in DOMAIN scanned : scanned[i].file = fpath}

\* C5 (as claimed): a file whose open or read fails is logged and skipped, every
\* file after it is still scanned, analyze_files returns, and the summary
\* reflects only the occurrences of the files that were read.
C5_Original ==
  Returned =>
    \A k \in DOMAIN files :
      LET f == Resolve(files[k])
      IN /\ failAt[f] # NoFail => files[k] \in Failed
         /\ failAt[f] = NoFail => Cardinality(ScannedOf(files[k])) = Len(content[f])
         /\ failAt[f] # NoFail =>
              /\ \A j \in DOMAIN occurrences : occurrences[j].file # files[k]
              /\ \A n \in DOMAIN summary : files[k] \notin Range(summary[n].files)

\* the part of C5 that does not concern what a failed file leaves behind
C5_FailureLoggedRunContinues ==
  Returned =>
    \A k \in DOMAIN files :
      LET f == Resolve(files[k])
      IN /\ failAt[f] # NoFail <=> files[k] \in Failed
         /\ failAt[f] = NoFail => Cardinality(ScannedOf(files[k])) = Len(content[f])
         /\ failAt[f] = 0 => \A j \in DOMAIN occurrences : occurrences[j].file # files[k]

\* C6: when the paths resolve to no file the run ends with exit status 2
\* before any scanning and writes no report file.
C6_NoFilesExitsEmpty ==
  (pc \notin {"main", "iter_inputs"} /\ files = <<>>)
    => /\ pc = "exit"
       /\ status = 2
       /\ scanned = <<>>
       /\ DOMAIN written = {}

C6_Witness ==
  /\ pc = "exit"
  /\ status = 2
  /\ export_json
  /\ Len(argv_input) >= 2
  /\ DOMAIN written = {}

Ordered(rows) ==
  \A k \in 1..(Len(rows) - 1) :
    \/ rows[k].count > rows[k + 1].count
    \/ /\ rows[k].count = rows[k + 1].count
       /\ NameRank[rows[k].error_name] < NameRank[rows[k + 1].error_name]

OnePerEntry(rows) ==
  /\ Len(rows) = Cardinality(DOMAIN summary)
  /\ \A n \in DOMAIN summary :
       \E k \in DOMAIN rows : rows[k].error_name = n /\ rows[k].count = summary[n].count

\* C7: the summary CSV and the Markdown table have one row per summary entry,
\* ordered by count descending, then error_name ascending.
C7_RowsByCountThenName ==
  /\ "erros_resumo.csv" \in DOMAIN written
       => /\ Ordered(written["erros_resumo.csv"])
          /\ OnePerEntry(written["erros_resumo.csv"])
  /\ "RELATORIO_SUMARIO.md" \in DOMAIN written
       => /\ Ordered(written["RELATORIO_SUMARIO.md"])
          /\ OnePerEntry(written["RELATORIO_SUMARIO.md"])

C7_Witness ==
  /\ "RELATORIO_SUMARIO.md" \in DOMAIN written
  /\ LET rows == written["erros_resumo.csv"]
     IN /\ Len(rows) >= 2
        /\ rows[1].count > rows[2].count
        /\ NameRank[rows[1].error_name] > NameRank[rows[2].error_name]

\* C8 (as claimed): iter_input_files returns an ascending list in which no log
\* file appears twice, whatever paths name it; a path that is neither a file
\* nor a directory is warned about and the other paths are still collected.
C8_Original ==
  pc \notin {"main", "iter_inputs"} =>
    /\ \A k \in 1..(Len(files) - 1) : PathLess(files[k], files[k + 1])
    /\ \A a, b \in DOMAIN files : a # b => Resolve(files[a]) # Resolve(files[b])
    /\ \A k \in DOMAIN argv_input :
         LET p == Path(argv_input[k])
         IN /\ is_file(p) => \E a \in DOMAIN files : Resolve(files[a]) = Resolve(p)
            /\ is_dir(p) => \A t \in TxtFiles : \E a \in DOMAIN files : Resolve(files[a]) = t
            /\ (~is_file(p) /\ ~is_dir(p))
                 => \E j \in DOMAIN stderr : stderr[j] = [tag |-> "WARN", path |-> argv_input[k]]

\* the part of C8 that holds: ascending, no path twice, missing paths warned
C8_SortedDistinctPaths ==
  pc \notin {"main", "iter_inputs"} =>
    /\ \A k \in 1..(Len(files) - 1) : PathLess(files[k], files[k + 1])
    /\ \A k \in DOMAIN argv_input :
         LET p == Path(argv_input[k])
         IN /\ is_file(p) => \E a \in DOMAIN files : files[a] = p
            /\ is_dir(p) => \A t \in TxtFiles : \E a \in DOMAIN files : Resolve(files[a]) = t
            /\ (~is_file(p) /\ ~is_dir(p))
                 => \E j \in DOMAIN stderr : stderr[j] = [tag |-> "WARN", path |-> argv_input[k]]

\* C9: when analyze_files returns, the files of every entry hold each path at
\* most once and are exactly the files with an occurrence of that name.
C9_FilesAreTheAffectedSet ==
  Returned =>
    \A n \in DOMAIN summary :
      /\ \A a, b \in DOMAIN summary[n].files :
           a # b => summary[n].files[a] # summary[n].files[b]
      /\ Range(summary[n].files) = {occurrences[k].file : k \in OccsOf(n)}

C9_Witness ==
  /\ Returned
  /\ \E n \in DOMAIN summary : summary[n].count = 3 /\ Len(summary[n].files) = 2

\* C10: a second run on the same paths in any order, the same files and the
\* same read failures yields the same occurrences, the same summary CSV rows
\* in the same order and the same exit status.
C10_SecondRunSameOutput ==
  (prev.set /\ pc \in {"done", "exit"}) =>
    /\ occurrences = prev.occurrences
    /\ status = prev.status
    /\ "erros_resumo.csv" \in DOMAIN written => written["erros_resumo.csv"] = prev.csv_summary
    /\ "erros_resumo.csv" \notin DOMAIN written => prev.csv_summary = <<>>

C10_Witness ==
  /\ prev.set
  /\ pc = "done"
  /\ prev.argv # argv_input
  /\ prev.acc # acc
  /\ Failed # {}
  /\ Cardinality({occurrences[k].file : k \in DOMAIN occurrences}) >= 2
  /\ Len(written["erros_resumo.csv"]) >= 2

\* a step that aggregates one more occurrence into the entry n that exists
\* already, where the incoming timestamp string or a stored bound is a
\* string that does not parse
SkipCase(n) ==
  /\ Len(occurrences') = Len(occurrences) + 1
  /\ n \in DOMAIN summary
  /\ occurrences'[Len(occurrences')].error_name = n
  /\ LET ts == occurrences'[Len(occurrences')].timestamp
     IN \/ ts # EmptyStr /\ ~Parses(ts)
        \/ summary[n].first_seen # EmptyStr /\ ~Parses(summary[n].first_seen)
        \/ summary[n].last_seen # EmptyStr /\ ~Parses(summary[n].last_seen)

\* count and files are updated and nothing is raised
CountedQuietly(n) ==
  /\ summary'[n].count = summary[n].count + 1
  /\ summary'[n].files = summary[n].files \cup {occurrences'[Len(occurrences')].file}
  /\ stderr' = stderr
  /\ pc' = pc

\* C11 (as claimed): when an occurrence is aggregated into an existing entry
\* and the incoming or a stored timestamp fails to parse, first_seen and
\* last_seen are left unchanged, no error is raised, count and files are
\* updated.
C11_Original ==
  [][\A n \in Names :
       SkipCase(n) => /\ summary'[n].first_seen = summary[n].first_seen
                      /\ summary'[n].last_seen = summary[n].last_seen
                      /\ CountedQuietly(n)]_vars

\* C11 (amended): as claimed, except that a bound of the entry that is still
\* empty is set to the incoming timestamp string, parseable or not.
C11_SkipKeepsNonEmptyBounds ==
  [][\A n \in Names :
       SkipCase(n) =>
         LET ts == occurrences'[Len(occurrences')].timestamp
         IN /\ summary'[n].first_seen =
                 (IF summary[n].first_seen = EmptyStr THEN ts ELSE summary[n].first_seen)
            /\ summary'[n].last_seen =
                 (IF summary[n].last_seen = EmptyStr THEN ts ELSE summary[n].last_seen)
            /\ CountedQuietly(n)]_vars

C11_Witness ==
  /\ pc = "for_line"
  /\ \E n \in DOMAIN summary :
       /\ summary[n].count >= 2
       /\ Parses(summary[n].first_seen)
       /\ \E k1, k2 \in OccsOf(n) :
            /\ k1 < k2
            /\ Parses(occurrences[k1].timestamp)
            /\ occurrences[k2].timestamp # EmptyStr
            /\ ~Parses(occurrences[k2].timestamp)

====
